---- MODULE Spec2Model ----
(***************************************************************************)
(* A model of scripts/unity_asset_extractor.py: the UnityToDreamcastConverter *)
(* pipeline (main, extract_assets, the four extract_* handlers and the     *)
(* encoders they call) over an output directory modelled as a map from     *)
(* path to file content.  Paths and asset names are sequences of           *)
(* one-character strings, so that sanitize_filename, str.replace and the   *)
(* substring tests of the code are computed, not assumed.                  *)
(***************************************************************************)
EXTENDS Integers, Sequences, FiniteSets, TLC

VARIABLES
    pc,          \* position of main(): "start", "iterating", "done", "exited"
    bundle,      \* the objects of the opened bundle, in iteration order (input)
    bundleOk,    \* whether open()/unitypack.load() of the bundle succeeds (input)
    env,         \* state of the external commands: command -> absent/ok/fails
    max_size,    \* config["texture"]["max_size"]
    pbar,        \* the tqdm progress counter: objects iterated so far
    fs,          \* the output directory: path -> content
    log,         \* the records written to the logger, in order
    exitStatus,  \* the process exit status; -1 while the process runs
    runs,        \* number of invocations of main() so far
    arg,         \* argument of the pure function under study
    ret          \* its result

vars == <<pc, bundle, bundleOk, env, max_size, pbar, fs, log, exitStatus, runs, arg, ret>>

(***************************************************************************)
(* Bounds of the model.                                                    *)
(***************************************************************************)
MaxAssets == 3
MaxRuns == 2
MaxDim == 20
MaxCeilExp == 4
MaxVertexFloats == 7
MaxIndexLen == 6
MaxUvLen == 4
MaxSamples == 4

(***************************************************************************)
(* Arithmetic as the code computes it.                                     *)
(***************************************************************************)
Min(a, b) == IF a < b THEN a ELSE b

RECURSIVE Pow2(_)
Pow2(k) == IF k = 0 THEN 1 ELSE 2 * Pow2(k - 1)

\* math.ceil(math.log2(n)) for a positive integer n: the least k with 2^k >= n.
RECURSIVE CeilLog2From(_, _)
CeilLog2From(n, k) == IF Pow2(k) >= n THEN k ELSE CeilLog2From(n, k + 1)

\* a faulty variant: floor instead of ceil
RECURSIVE FloorLog2From(_, _)
FloorLog2From(n, k) == IF Pow2(k + 1) > n THEN k ELSE FloorLog2From(n, k + 1)

CeilLog2Floor(n) == FloorLog2From(n, 0)

CeilLog2(n) == CeilLog2From(n, 0)

\* nearest_power_of_2(size): per axis, min(2 ** ceil(log2(dim)), max_size).
NearestPowerOf2(size, ceiling) ==
    << Min(Pow2(CeilLog2(size[1])), ceiling),
       Min(Pow2(CeilLog2(size[2])), ceiling) >>

ShiftR(x, n) == x \div Pow2(n)

ShiftL(x, n) == x * Pow2(n)

RECURSIVE BitOr(_, _)
BitOr(a, b) ==
    IF a = 0 THEN b
    ELSE IF b = 0 THEN a
    ELSE 2 * BitOr(a \div 2, b \div 2) + (IF a % 2 = 1 \/ b % 2 = 1 THEN 1 ELSE 0)

\* a faulty variant: green keeps only 5 bits (RGB555-style shift)
Rgb565Green5(r, g, b) == BitOr(BitOr(ShiftL(ShiftR(r, 3), 11), ShiftL(ShiftR(g, 3), 5)), ShiftR(b, 3))

\* ((r >> 3) << 11) | ((g >> 2) << 5) | (b >> 3)
Rgb565(r, g, b) == BitOr(BitOr(ShiftL(ShiftR(r, 3), 11), ShiftL(ShiftR(g, 2), 5)), ShiftR(b, 3))

\* the pixel value png_to_raw_rgb565 writes
RawPixel(px) == Rgb565(px[1], px[2], px[3])

\* the pixel value create_simple_pvr writes
PvrPixel(px) == Rgb565(px[1], px[2], px[3])

\* struct.pack('<H', v) raises struct.error unless 0 <= v <= 65535
FitsH(v) == v >= 0 /\ v < Pow2(16)

(***************************************************************************)
(* Strings: sequences of one-character strings.                            *)
(***************************************************************************)
InvalidChars == {"<", ">", ":", "\"", "/", "\\", "|", "?", "*"}

Whitespace == {" "}

RECURSIVE LStrip(_)
LStrip(s) == IF s # <<>> /\ Head(s) \in Whitespace THEN LStrip(Tail(s)) ELSE s

RECURSIVE RStrip(_)
RStrip(s) ==
    IF s # <<>> /\ s[Len(s)] \in Whitespace THEN RStrip(SubSeq(s, 1, Len(s) - 1)) ELSE s

\* sanitize_filename: every invalid character becomes "_", then str.strip()
sanitize_filename(name) ==
    LStrip(RStrip([i \in 1..Len(name) |-> IF name[i] \in InvalidChars THEN "_" ELSE name[i]]))

\* str.replace(old, new): left to right, non-overlapping
RECURSIVE ReplaceAll(_, _, _)
ReplaceAll(s, old, new) ==
    IF Len(s) < Len(old) THEN s
    ELSE IF SubSeq(s, 1, Len(old)) = old
         THEN new \o ReplaceAll(SubSeq(s, Len(old) + 1, Len(s)), old, new)
         ELSE <<Head(s)>> \o ReplaceAll(Tail(s), old, new)

\* sub in s
Contains(s, sub) ==
    \E i \in 1..(Len(s) - Len(sub) + 1) : SubSeq(s, i, i + Len(sub) - 1) = sub

\* os.path.join(dir, file)
Join(dir, file) == dir \o <<"/">> \o file

\* os.path.basename(path)
RECURSIVE Basename(_)
Basename(path) ==
    IF \E i \in 1..Len(path) : path[i] = "/"
    THEN Basename(Tail(path))
    ELSE path

DotPng == <<".", "p", "n", "g">>
DotPvr == <<".", "p", "v", "r">>
DotRaw == <<".", "r", "a", "w">>
DotVq == <<".", "v", "q">>
DotInfo == <<".", "i", "n", "f", "o">>
DotWav == <<".", "w", "a", "v">>
DotAdx == <<".", "a", "d", "x">>
DotDcm == <<".", "d", "c", "m">>
DotObj == <<".", "o", "b", "j">>
DotJson == <<".", "j", "s", "o", "n">>
ResizedPng == <<"_", "r", "e", "s", "i", "z", "e", "d", ".", "p", "n", "g">>
Resized == <<"r", "e", "s", "i", "z", "e", "d">>
OutputDir == <<"o", "u", "t">>

TexturesName == <<"t", "e", "x", "t", "u", "r", "e", "s">>
AudioName == <<"a", "u", "d", "i", "o">>
ModelsName == <<"m", "o", "d", "e", "l", "s">>
MaterialsName == <<"m", "a", "t", "e", "r", "i", "a", "l", "s">>

(***************************************************************************)
(* Execution state of one handler: the files, the log and whether an       *)
(* exception is propagating.  Every statement is skipped while one is.     *)
(***************************************************************************)
EmptyFS == [p \in {} |-> 0]

Exists(st, path) == path \in DOMAIN st.fs

\* open(path, 'w'/'wb') ... write: the file holds content afterwards
WriteFile(st, path, content) ==
    IF st.exc THEN st
    ELSE [st EXCEPT !.fs = [p \in DOMAIN st.fs \cup {path} |->
                                IF p = path THEN content ELSE st.fs[p]]]

\* os.remove(path): FileNotFoundError when the file is absent
RemoveFile(st, path) ==
    IF st.exc THEN st
    ELSE IF path \in DOMAIN st.fs
         THEN [st EXCEPT !.fs = [p \in DOMAIN st.fs \ {path} |-> st.fs[p]]]
         ELSE [st EXCEPT !.exc = TRUE]

Raise(st) == [st EXCEPT !.exc = TRUE]

\* self.logger.<level>(msg); obj is the position of the object the handler works on
LogMsg(st, level, msg, k) ==
    IF st.exc THEN st
    ELSE [st EXCEPT !.log = Append(st.log, [level |-> level, msg |-> msg, obj |-> k])]

\* except Exception as e: self.logger.error(...)
Caught(st, msg, k) ==
    IF st.exc
    THEN [st EXCEPT !.exc = FALSE,
                    !.log = Append(st.log, [level |-> "ERROR", msg |-> msg, obj |-> k])]
    ELSE st

\* command_exists(cmd): `which cmd` returns 0
command_exists(e, cmd) == e[cmd] # "absent"

\* subprocess.run(cmd, check=True) of a converter that writes output_path:
\* CalledProcessError when the command exits non-zero
RunTool(st, e, cmd, output_path, content) ==
    IF st.exc THEN st
    ELSE IF e[cmd] = "ok" THEN WriteFile(st, output_path, content)
    ELSE Raise(st)

(***************************************************************************)
(* Audio.                                                                  *)
(***************************************************************************)
\* raw_to_wav: wave.open creates the file; setnchannels and setframerate raise
\* wave.Error on a value < 1; writeframes stores the raw bytes as they are
raw_to_wav(st, raw_path, wav_path, sample_rate, channels) ==
    IF st.exc THEN st
    ELSE LET raw_data == st.fs[raw_path]
             opened == WriteFile(st, wav_path, [kind |-> "empty"])
         IN  IF channels < 1 \/ sample_rate < 1 THEN Raise(opened)
             ELSE WriteFile(opened, wav_path,
                            [kind |-> "wav", nchannels |-> channels, sampwidth |-> 2,
                             framerate |-> sample_rate,
                             nframes |-> raw_data.bytes \div (2 * channels),
                             databytes |-> raw_data.bytes])

\* convert_to_adpcm: adxtool, else sox, else a warning and nothing written
convert_to_adpcm(st, wav_path, output_path, e, k) ==
    IF st.exc THEN st
    ELSE IF command_exists(e, "adxtool")
         THEN RunTool(st, e, "adxtool", output_path, [kind |-> "adx", of |-> st.fs[wav_path]])
         ELSE IF command_exists(e, "sox")
              THEN RunTool(st, e, "sox", output_path, [kind |-> "ima", of |-> st.fs[wav_path]])
              ELSE LogMsg(st, "WARNING", "No ADPCM converter available, keeping WAV format", k)

AudioPath(name, ext) == Join(Join(OutputDir, AudioName), name \o ext)

\* the try block of extract_audio
ExtractAudioBody(st, obj, k, e) ==
    IF ~obj.readOk THEN Raise(st)
    ELSE LET name == sanitize_filename(obj.name)
             raw_path == AudioPath(name, DotRaw)
             wav_path == AudioPath(name, DotWav)
             adpcm_path == AudioPath(name, DotAdx)
             s1 == WriteFile(st, raw_path, [kind |-> "raw", bytes |-> 2 * obj.samples])
             s2 == raw_to_wav(s1, raw_path, wav_path, obj.frequency, obj.channels)
             s3 == convert_to_adpcm(s2, wav_path, adpcm_path, e, k)
             s4 == RemoveFile(s3, raw_path)
             s5 == IF ~s4.exc /\ Exists(s4, adpcm_path) THEN RemoveFile(s4, wav_path) ELSE s4
         IN  LogMsg(s5, "INFO", "Extracted audio", k)

extract_audio(st, obj, k, e) ==
    Caught(ExtractAudioBody(st, obj, k, e), "Failed to extract audio", k)

(***************************************************************************)
(* Textures.                                                               *)
(***************************************************************************)
\* png_to_raw_rgb565: one packed value per pixel of the (uniform) image
png_to_raw_rgb565(st, png_path, raw_path) ==
    IF st.exc THEN st
    ELSE LET img == st.fs[png_path]
         IN  WriteFile(st, raw_path, [kind |-> "rgb565", size |-> img.size, px |-> RawPixel(img.rgb)])

\* create_simple_pvr: header (magic, header size 8, width, height, format 1,
\* data type 1, padding) and one packed value per pixel
create_simple_pvr(st, png_path, pvr_path) ==
    IF st.exc THEN st
    ELSE LET img == st.fs[png_path]
         IN  IF ~FitsH(img.size[1]) \/ ~FitsH(img.size[2]) THEN Raise(WriteFile(st, pvr_path, [kind |-> "empty"]))
             ELSE WriteFile(st, pvr_path,
                            [kind |-> "pvr", header_size |-> 8, size |-> img.size,
                             format |-> 1, data_type |-> 1, px |-> PvrPixel(img.rgb)])

\* convert_to_pvr
convert_to_pvr(st, input_path, output_dir, e, ceiling) ==
    IF st.exc THEN st
    ELSE LET img == st.fs[input_path]
             wh == NearestPowerOf2(img.size, ceiling)
             resized == wh # img.size
             temp_path == ReplaceAll(input_path, DotPng, ResizedPng)
             s1 == IF resized
                   THEN WriteFile(st, temp_path, [kind |-> "png", size |-> wh, rgb |-> img.rgb])
                   ELSE st
             in_path == IF resized THEN temp_path ELSE input_path
             output_path == Join(output_dir, ReplaceAll(Basename(in_path), DotPng, DotPvr))
             raw_path == ReplaceAll(in_path, DotPng, DotRaw)
             s2 == IF command_exists(e, "pvr_converter")
                   THEN RemoveFile(RunTool(png_to_raw_rgb565(s1, in_path, raw_path), e,
                                           "pvr_converter", output_path,
                                           [kind |-> "pvr_ext", size |-> wh, px |-> RawPixel(img.rgb)]),
                                   raw_path)
                   ELSE create_simple_pvr(s1, in_path, output_path)
         IN  IF Contains(in_path, Resized) THEN RemoveFile(s2, in_path) ELSE s2

\* convert_to_vq: only a marker file <name>.vq.info
convert_to_vq(st, input_path, output_dir, k) ==
    LET output_path == Join(output_dir, ReplaceAll(Basename(input_path), DotPng, DotVq))
    IN  WriteFile(LogMsg(st, "INFO", "VQ compression placeholder", k),
                  output_path \o DotInfo, [kind |-> "vqinfo", of |-> Basename(input_path)])

TexturePath(name, ext) == Join(Join(OutputDir, TexturesName), name \o ext)

\* the try block of extract_texture
ExtractTextureBody(st, obj, k, e, ceiling) ==
    IF ~obj.readOk THEN Raise(st)
    ELSE IF ~obj.hasImage THEN LogMsg(st, "WARNING", "Skipping texture: No image data", k)
    ELSE LET name == sanitize_filename(obj.name)
             tex_dir == Join(OutputDir, TexturesName)
             png_path == Join(tex_dir, name \o DotPng)
             s1 == WriteFile(st, png_path, [kind |-> "png", size |-> obj.size, rgb |-> obj.rgb])
             s2 == LogMsg(s1, "INFO", "Extracted texture", k)
             s3 == convert_to_pvr(s2, png_path, tex_dir, e, ceiling)
         IN  convert_to_vq(s3, png_path, tex_dir, k)

extract_texture(st, obj, k, e, ceiling) ==
    Caught(ExtractTextureBody(st, obj, k, e, ceiling), "Failed to extract texture", k)

(***************************************************************************)
(* Meshes.  A binary container is the sequence of the fields written to    *)
(* it: [t |-> "magic"|"I"|"f"|"H", v |-> value].                           *)
(***************************************************************************)
\* a faulty variant: an index that does not fit is written modulo 2^16
PackHHHTruncating(grp) == [ok |-> TRUE, vals |-> [i \in 1..Len(grp) |-> grp[i] % Pow2(16)]]

\* struct.pack('<HHH', a, b, c): struct.error when a value is outside 0..65535
PackHHH(grp) ==
    IF \A i \in 1..Len(grp) : FitsH(grp[i])
    THEN [ok |-> TRUE, vals |-> grp]
    ELSE [ok |-> FALSE, vals |-> <<>>]

\* struct.pack('<fff', x, y, z) and struct.pack('<ff', u, v)
PackFloats(grp) == [ok |-> TRUE, vals |-> grp]

\* for i in range(0, len(buf), n): a, b, .. = buf[i:i+n]; f.write(struct.pack(..))
\* the unpacking raises ValueError on a short last group
RECURSIVE PackGroups(_, _, _, _)
PackGroups(out, buf, n, tag) ==
    IF buf = <<>> THEN [fields |-> out, exc |-> FALSE]
    ELSE IF Len(buf) < n THEN [fields |-> out, exc |-> TRUE]
    ELSE LET packed == IF tag = "H" THEN PackHHH(SubSeq(buf, 1, n))
                       ELSE PackFloats(SubSeq(buf, 1, n))
         IN  IF ~packed.ok THEN [fields |-> out, exc |-> TRUE]
             ELSE PackGroups(out \o [i \in 1..n |-> [t |-> tag, v |-> packed.vals[i]]],
                             SubSeq(buf, n + 1, Len(buf)), n, tag)

U32(n) == [t |-> "I", v |-> n]

\* a faulty variant: the UV count is written only when UV data is present
UvSectionOnlyWhenPresent(out, mesh_data) ==
    IF mesh_data.hasUV /\ mesh_data.uv # <<>>
    THEN PackGroups(Append(out, U32(Len(mesh_data.uv) \div 2)), mesh_data.uv, 2, "f")
    ELSE [fields |-> out, exc |-> FALSE]

\* "Write UV count if available": the count and the pairs, else a count of 0
UvSection(out, mesh_data) ==
    IF mesh_data.hasUV /\ mesh_data.uv # <<>>
    THEN PackGroups(Append(out, U32(Len(mesh_data.uv) \div 2)), mesh_data.uv, 2, "f")
    ELSE [fields |-> Append(out, U32(0)), exc |-> FALSE]

\* the fields export_dreamcast_mesh writes before it returns or raises
DcmFields(mesh_data) ==
    LET header == << [t |-> "magic", v |-> 1], U32(Len(mesh_data.vertices) \div 3) >>
        r1 == PackGroups(header, mesh_data.vertices, 3, "f")
        r2 == PackGroups(Append(r1.fields, U32(Len(mesh_data.indices) \div 3)),
                         mesh_data.indices, 3, "H")
    IN  IF r1.exc THEN r1
        ELSE IF r2.exc THEN r2
        ELSE UvSection(r2.fields, mesh_data)

export_dreamcast_mesh(st, mesh_data, output_path) ==
    IF st.exc THEN st
    ELSE LET r == DcmFields(mesh_data)
             written == WriteFile(st, output_path, [kind |-> "dcm", fields |-> r.fields])
         IN  IF r.exc THEN Raise(written) ELSE written

\* the lines export_obj writes: comments, v lines, vt lines, f lines (1-based)
ObjLines(mesh_data) ==
    LET header == << [t |-> "#", v |-> 0], [t |-> "#", v |-> Len(mesh_data.vertices) \div 3] >>
        r1 == PackGroups(header, mesh_data.vertices, 3, "v")
        r2 == IF mesh_data.hasUV /\ mesh_data.uv # <<>>
              THEN PackGroups(r1.fields, mesh_data.uv, 2, "vt")
              ELSE r1
        r3 == PackGroups(r2.fields, [i \in 1..Len(mesh_data.indices) |-> mesh_data.indices[i] + 1],
                         3, "face")
    IN  IF r1.exc THEN r1 ELSE IF r2.exc THEN r2 ELSE r3

export_obj(st, mesh_data, output_path) ==
    IF st.exc THEN st
    ELSE LET r == ObjLines(mesh_data)
             written == WriteFile(st, output_path, [kind |-> "obj", lines |-> r.fields])
         IN  IF r.exc THEN Raise(written) ELSE written

ModelPath(name, ext) == Join(Join(OutputDir, ModelsName), name \o ext)

\* the try block of extract_mesh
ExtractMeshBody(st, obj, k) ==
    IF ~obj.readOk THEN Raise(st)
    ELSE LET name == sanitize_filename(obj.name)
             s1 == export_dreamcast_mesh(st, obj, ModelPath(name, DotDcm))
             s2 == export_obj(s1, obj, ModelPath(name, DotObj))
         IN  LogMsg(s2, "INFO", "Extracted mesh", k)

\* a faulty variant: extract_mesh without its except clause
ExtractMeshUncaught(st, obj, k) == ExtractMeshBody(st, obj, k)

extract_mesh(st, obj, k) ==
    Caught(ExtractMeshBody(st, obj, k), "Failed to extract mesh", k)

(***************************************************************************)
(* Materials.  A property value is [tag, v]: tag "int", "float", "str",    *)
(* "bool" (a scalar), "object" (an instance, with __dict__) or "list"      *)
(* (a list, tuple, dict or None: no __dict__).                             *)
(***************************************************************************)
ScalarTags == {"int", "float", "str", "bool"}

\* str(prop_value)
StrOf(value) == [tag |-> "str", v |-> value.v, text_of |-> value.tag]

\* the loop over data.properties.items()
ProjectProperties(properties) ==
    LET kept == {n \in DOMAIN properties :
                    properties[n].tag \in ScalarTags \/ properties[n].tag = "object"}
    IN  [n \in kept |-> IF properties[n].tag \in ScalarTags
                        THEN properties[n]
                        ELSE StrOf(properties[n])]

MaterialPath(name) == Join(Join(OutputDir, MaterialsName), name \o DotJson)

\* the try block of extract_material; json.dump raises TypeError on a shader
\* that is not a JSON value, after the file was opened and partly written
ExtractMaterialBody(st, obj, k) ==
    IF ~obj.readOk THEN Raise(st)
    ELSE LET name == sanitize_filename(obj.name)
             mat_data == [kind |-> "json",
                          name |-> name,
                          shader |-> IF obj.shader = "absent" THEN "unknown" ELSE obj.shader,
                          properties |-> IF obj.hasProperties
                                         THEN ProjectProperties(obj.properties)
                                         ELSE EmptyFS]
             s1 == IF obj.shader = "object"
                   THEN Raise(WriteFile(st, MaterialPath(name), [kind |-> "partial"]))
                   ELSE WriteFile(st, MaterialPath(name), mat_data)
         IN  LogMsg(s1, "INFO", "Extracted material", k)

extract_material(st, obj, k) ==
    Caught(ExtractMaterialBody(st, obj, k), "Failed to extract material", k)

(***************************************************************************)
(* The driver: main() and the loop of extract_assets.                      *)
(***************************************************************************)
KnownTypes == {"Texture2D", "AudioClip", "Mesh", "Material"}

\* the if/elif chain on obj.type; any other type is passed over
DispatchObject(st, obj, k, e, ceiling) ==
    IF obj.type = "Texture2D" THEN extract_texture(st, obj, k, e, ceiling)
    ELSE IF obj.type = "AudioClip" THEN extract_audio(st, obj, k, e)
    ELSE IF obj.type = "Mesh" THEN extract_mesh(st, obj, k)
    ELSE IF obj.type = "Material" THEN extract_material(st, obj, k)
    ELSE st

\* a faulty variant: main() reports success whatever extract_assets did
MainExitAlwaysZero(raised) == 0

\* main(): sys.exit(1) when extract_assets raised, else the normal exit
MainExit(raised) == IF raised THEN 1 ELSE 0

\* extract_assets up to the loop, the bundle opening and parsing
OpenBundle ==
    /\ pc = "start"
    /\ bundleOk
    /\ log' = Append(log, [level |-> "INFO", msg |-> "Opening Unity asset bundle", obj |-> 0])
    /\ pbar' = 0
    /\ pc' = "iterating"
    /\ UNCHANGED <<bundle, bundleOk, env, max_size, fs, exitStatus, runs, arg, ret>>

\* open() or unitypack.load() raises: logged, re-raised, main() exits
OpenFails ==
    /\ pc = "start"
    /\ ~bundleOk
    /\ log' = log \o << [level |-> "INFO", msg |-> "Opening Unity asset bundle", obj |-> 0],
                        [level |-> "ERROR", msg |-> "Failed to process Unity file", obj |-> 0] >>
    /\ pc' = "aborted"
    /\ exitStatus' = MainExit(TRUE)
    /\ UNCHANGED <<bundle, bundleOk, env, max_size, pbar, fs, runs, arg, ret>>

\* one iteration of the loop: pbar.update(1) and the handler of the object's type;
\* an exception leaving the handler is logged by extract_assets and ends main()
Dispatch ==
    /\ pc = "iterating"
    /\ pbar < Len(bundle)
    /\ LET k == pbar + 1
           st == DispatchObject([fs |-> fs, log |-> log, exc |-> FALSE], bundle[k], k, env, max_size)
       IN  /\ pbar' = k
           /\ fs' = st.fs
           /\ IF st.exc
              THEN /\ log' = Append(st.log, [level |-> "ERROR",
                                             msg |-> "Failed to process Unity file", obj |-> 0])
                   /\ pc' = "aborted"
                   /\ exitStatus' = MainExit(TRUE)
              ELSE /\ log' = st.log
                   /\ UNCHANGED <<pc, exitStatus>>
    /\ UNCHANGED <<bundle, bundleOk, env, max_size, runs, arg, ret>>

\* the loop is over: extract_assets returns and main() prints its success line
Finish ==
    /\ pc = "iterating"
    /\ pbar = Len(bundle)
    /\ pc' = "done"
    /\ exitStatus' = MainExit(FALSE)
    /\ UNCHANGED <<bundle, bundleOk, env, max_size, pbar, fs, log, runs, arg, ret>>

ToolStates == {"absent", "ok", "fails"}

ToolEnvs == [pvr_converter : ToolStates, adxtool : ToolStates, sox : ToolStates]

\* the same command line run again over the same output directory; commands
\* may have been installed or removed in between
Rerun ==
    /\ pc \in {"done", "aborted"}
    /\ runs < MaxRuns
    /\ runs' = runs + 1
    /\ env' \in ToolEnvs
    /\ pc' = "start"
    /\ exitStatus' = -1
    /\ log' = <<>>
    /\ pbar' = 0
    /\ UNCHANGED <<bundle, bundleOk, max_size, fs, arg, ret>>

Next == OpenBundle \/ OpenFails \/ Dispatch \/ Finish

NextRerun == Next \/ Rerun

\* the state when main() is entered with an empty output directory
InitOver(bundles, envs, ceilings) ==
    /\ pc = "start"
    /\ bundle \in bundles
    /\ bundleOk \in BOOLEAN
    /\ env \in envs
    /\ max_size \in ceilings
    /\ pbar = 0
    /\ fs = EmptyFS
    /\ log = <<>>
    /\ exitStatus = -1
    /\ runs = 1
    /\ arg = <<>>
    /\ ret = <<>>

(***************************************************************************)
(* Inputs.                                                                 *)
(***************************************************************************)
DefaultMaxSize == 512

NoTools == [pvr_converter |-> "absent", adxtool |-> "absent", sox |-> "absent"]

\* every command in the same state
UniformEnvs == {[pvr_converter |-> s, adxtool |-> s, sox |-> s] : s \in ToolStates}

Texture(name, readOk, hasImage, size, rgb) ==
    [type |-> "Texture2D", name |-> name, readOk |-> readOk, hasImage |-> hasImage,
     size |-> size, rgb |-> rgb]

Audio(name, readOk, samples, frequency, channels) ==
    [type |-> "AudioClip", name |-> name, readOk |-> readOk, samples |-> samples,
     frequency |-> frequency, channels |-> channels]

Mesh(name, readOk, vertices, indices, hasUV, uv) ==
    [type |-> "Mesh", name |-> name, readOk |-> readOk, vertices |-> vertices,
     indices |-> indices, hasUV |-> hasUV, uv |-> uv]

Material(name, readOk, shader, hasProperties, properties) ==
    [type |-> "Material", name |-> name, readOk |-> readOk, shader |-> shader,
     hasProperties |-> hasProperties, properties |-> properties]

Val(tag, v) == [tag |-> tag, v |-> v]

\* one object of every kind in every condition the handlers distinguish
Catalogue ==
    { Texture(<<"t">>, TRUE, TRUE, <<4, 4>>, <<248, 0, 0>>),
      Texture(<<"n">>, TRUE, TRUE, <<3, 5>>, <<7, 3, 3>>),
      Texture(<<"x">>, TRUE, FALSE, <<1, 1>>, <<0, 0, 0>>),
      Audio(<<"a">>, TRUE, 4, 22050, 2),
      Audio(<<"b">>, TRUE, 4, 22050, 0),
      Mesh(<<"m">>, TRUE, <<1, 2, 3>>, <<0, 0, 0>>, FALSE, <<>>),
      Mesh(<<"i">>, TRUE, <<1, 2, 3>>, <<0, 0, 0, 0, 65536, 0>>, TRUE, <<5, 6>>),
      Mesh(<<"v">>, TRUE, <<1, 2, 3, 4>>, <<0, 0, 0>>, FALSE, <<>>),
      Material(<<"g">>, TRUE, "Standard", TRUE, [n \in {"_Glossiness"} |-> Val("float", 1)]),
      Material(<<"r">>, FALSE, "Standard", TRUE, EmptyFS),
      [type |-> "GameObject"] }

Bundles(catalogue) == UNION {[1..n -> catalogue] : n \in 0..MaxAssets}

Init == InitOver(Bundles(Catalogue), UniformEnvs, {DefaultMaxSize})

Spec == Init /\ [][Next]_vars

\* audio clips: sample counts 0..MaxSamples, one or two channels or none
AudioCatalogue ==
    { Audio(name, readOk, samples, frequency, channels) :
        name \in {<<"a">>, <<" ", "a", "/", "b">>}, readOk \in BOOLEAN,
        samples \in 0..MaxSamples, frequency \in {22050, 44100},
        channels \in 0..2 }

AudioEnvs == {e \in ToolEnvs : e.pvr_converter = "absent"}

InitAudio == InitOver({<<a>> : a \in AudioCatalogue}, AudioEnvs, {DefaultMaxSize})

SpecAudio == InitAudio /\ [][NextRerun]_vars

\* textures of every size up to 5 x 5 under a ceiling of 4 or 512
TextureCatalogue ==
    { Texture(name, readOk, hasImage, <<w, h>>, rgb) :
        name \in {<<"t">>, <<"a", "/", "b">>, <<" ", "t">>, <<"r", "e", "s", "i", "z", "e", "d">>},
        readOk \in BOOLEAN, hasImage \in BOOLEAN, w \in 1..5, h \in 1..5,
        rgb \in {<<255, 255, 255>>, <<7, 3, 3>>} }

TextureEnvs == {e \in ToolEnvs : e.adxtool = "absent" /\ e.sox = "absent"}

InitTexture == InitOver({<<a>> : a \in TextureCatalogue}, TextureEnvs, {4, DefaultMaxSize})

SpecTexture == InitTexture /\ [][Next]_vars

\* meshes: buffers of every length up to the bounds, at most one index replaced
\* by a value at or beyond the 16-bit range
IndexBuffer(n, bad, badval) == [i \in 1..n |-> IF i = bad THEN badval ELSE (i - 1) % 3]

MeshCatalogue ==
    { Mesh(<<"m">>, readOk, [i \in 1..nv |-> 10 + i], IndexBuffer(ni, bad, badval),
           hasUV, [i \in 1..nu |-> 20 + i]) :
        readOk \in BOOLEAN, nv \in 0..MaxVertexFloats, ni \in 0..MaxIndexLen,
        bad \in 0..MaxIndexLen, badval \in {65535, 65536, 70000},
        hasUV \in BOOLEAN, nu \in 0..MaxUvLen }

InitMesh == InitOver({<<a>> : a \in MeshCatalogue}, {NoTools}, {DefaultMaxSize})

SpecMesh == InitMesh /\ [][Next]_vars

\* materials: up to two properties, each of any kind of value
PropertyValues ==
    { Val("int", 1), Val("float", 2), Val("str", 3), Val("bool", 4),
      Val("object", 5), Val("list", 6) }

PropertyMaps == UNION {[names -> PropertyValues] : names \in SUBSET {"_Color", "_Glossiness"}}

MaterialCatalogue ==
    { Material(<<"g">>, readOk, shader, hasProperties, properties) :
        readOk \in BOOLEAN, shader \in {"absent", "Standard", "object"},
        hasProperties \in BOOLEAN, properties \in PropertyMaps }

InitMaterial == InitOver({<<a>> : a \in MaterialCatalogue}, {NoTools}, {DefaultMaxSize})

SpecMaterial == InitMaterial /\ [][Next]_vars

(***************************************************************************)
(* The pure functions on their own: nearest_power_of_2 and the pixel       *)
(* packing of png_to_raw_rgb565 and create_simple_pvr.                     *)
(***************************************************************************)
InitPure(args) ==
    /\ pc = "start"
    /\ bundle = <<>>
    /\ bundleOk = TRUE
    /\ env = NoTools
    /\ max_size = DefaultMaxSize
    /\ pbar = 0
    /\ fs = EmptyFS
    /\ log = <<>>
    /\ exitStatus = -1
    /\ runs = 1
    /\ arg \in args
    /\ ret = <<>>

\* w, h = self.nearest_power_of_2(img.size) under config max_size = arg.ceiling
Normalize ==
    /\ pc = "start"
    /\ ret' = NearestPowerOf2(arg.size, arg.ceiling)
    /\ pc' = "done"
    /\ UNCHANGED <<bundle, bundleOk, env, max_size, pbar, fs, log, exitStatus, runs, arg>>

Ceilings == {Pow2(x) : x \in 0..MaxCeilExp}

InitDim == InitPure([size : (1..MaxDim) \X (1..MaxDim), ceiling : Ceilings])

NextDim == Normalize

SpecDim == InitDim /\ [][NextDim]_vars

\* the value png_to_raw_rgb565 writes for the pixel arg
PackRawPixel ==
    /\ pc = "start"
    /\ ret' = [by |-> "png_to_raw_rgb565", v |-> RawPixel(arg)]
    /\ pc' = "done"
    /\ UNCHANGED <<bundle, bundleOk, env, max_size, pbar, fs, log, exitStatus, runs, arg>>

\* the value create_simple_pvr writes for the pixel arg
PackPvrPixel ==
    /\ pc = "start"
    /\ ret' = [by |-> "create_simple_pvr", v |-> PvrPixel(arg)]
    /\ pc' = "done"
    /\ UNCHANGED <<bundle, bundleOk, env, max_size, pbar, fs, log, exitStatus, runs, arg>>

ChannelSamples == {0, 3, 7, 8, 248, 255}

\* every value of one channel against sample values of the other two
Pixels ==
    ((0..255) \X ChannelSamples \X ChannelSamples)
    \cup (ChannelSamples \X (0..255) \X ChannelSamples)
    \cup (ChannelSamples \X ChannelSamples \X (0..255))

InitPack == InitPure(Pixels)

NextPack == PackRawPixel \/ PackPvrPixel

SpecPack == InitPack /\ [][NextPack]_vars

(***************************************************************************)
(* Properties.                                                             *)
(***************************************************************************)
\* the handler of object k has run
Handled(k) == pc \in {"iterating", "done", "aborted"} /\ k <= pbar

LoggedFor(k, levels) == \E i \in 1..Len(log) : log[i].obj = k /\ log[i].level \in levels

AllBelow65536(buf) == \A i \in 1..Len(buf) : buf[i] < 65536

\* the object's data and the commands its encoder runs are in order
WellFormed(obj, e) ==
    IF obj.type = "Texture2D" THEN obj.readOk /\ obj.hasImage /\ e.pvr_converter # "fails"
    ELSE IF obj.type = "AudioClip"
         THEN /\ obj.readOk /\ obj.channels >= 1 /\ obj.frequency >= 1
              /\ e.adxtool # "fails"
              /\ (e.adxtool = "absent" => e.sox # "fails")
    ELSE IF obj.type = "Mesh"
         THEN /\ obj.readOk /\ Len(obj.vertices) % 3 = 0 /\ Len(obj.indices) % 3 = 0
              /\ AllBelow65536(obj.indices)
              /\ (obj.hasUV => Len(obj.uv) % 2 = 0)
    ELSE obj.readOk /\ obj.shader # "object"

HasKind(path, kinds) == path \in DOMAIN fs /\ fs[path].kind \in kinds

\* the object's output file is in the output directory, whole
OutputProduced(obj) ==
    IF obj.type = "Texture2D"
    THEN \/ HasKind(TexturePath(obj.name, DotPvr), {"pvr", "pvr_ext"})
         \/ HasKind(TexturePath(obj.name \o <<"_">> \o Resized, DotPvr), {"pvr", "pvr_ext"})
    ELSE IF obj.type = "AudioClip"
         THEN \/ HasKind(AudioPath(obj.name, DotWav), {"wav"})
              \/ HasKind(AudioPath(obj.name, DotAdx), {"adx", "ima"})
    ELSE IF obj.type = "Mesh"
         THEN /\ HasKind(ModelPath(obj.name, DotDcm), {"dcm"})
              /\ Len(fs[ModelPath(obj.name, DotDcm)].fields)
                    = 4 + Len(obj.vertices) + Len(obj.indices)
                        + (IF obj.hasUV THEN Len(obj.uv) ELSE 0)
              /\ HasKind(ModelPath(obj.name, DotObj), {"obj"})
    ELSE HasKind(MaterialPath(obj.name), {"json"})

\* C1: failure isolation.  Once the bundle is open the run never aborts; every
\* object handled so far whose encode fails has its failure logged (an ERROR of
\* its handler, or the WARNING of a texture without image data); every
\* well-formed object handled so far has its output in the output directory and
\* no ERROR; and a finished run has handled every object of the bundle, each
\* object of a known type leaving a log record.
Thm_C1 ==
    /\ (pc = "aborted" => ~bundleOk)
    /\ (pc = "done" => pbar = Len(bundle))
    /\ \A k \in 1..Len(bundle) :
          (Handled(k) /\ bundle[k].type \in KnownTypes) =>
              /\ LoggedFor(k, {"INFO", "WARNING", "ERROR"})
              /\ IF WellFormed(bundle[k], env)
                 THEN OutputProduced(bundle[k]) /\ ~LoggedFor(k, {"ERROR"})
                 ELSE LoggedFor(k, {"WARNING", "ERROR"})

\* a finished run of three objects whose second is a mesh that fails to encode
\* and whose first and third are well-formed and have their outputs
Wit_C1 ==
    /\ pc = "done"
    /\ Len(bundle) = 3
    /\ bundle[2].type = "Mesh" /\ ~WellFormed(bundle[2], env) /\ LoggedFor(2, {"ERROR"})
    /\ bundle[1].type = "AudioClip" /\ WellFormed(bundle[1], env) /\ OutputProduced(bundle[1])
    /\ bundle[3].type = "Texture2D" /\ WellFormed(bundle[3], env) /\ OutputProduced(bundle[3])

\* C2: exit status.  The process has exited exactly when main() is over; the
\* status is 1 when opening or parsing the bundle failed and 0 in every other
\* run, whatever the number of objects that failed to encode.
Thm_C2 ==
    /\ exitStatus \in {-1, 0, 1}
    /\ (exitStatus # -1) <=> (pc \in {"done", "aborted"})
    /\ (exitStatus # -1) => ((exitStatus # 0) <=> ~bundleOk)

\* a run that exits with status 0 although two of its objects failed to encode
Wit_C2 ==
    /\ exitStatus = 0
    /\ \E j, k \in 1..Len(bundle) : j # k /\ LoggedFor(j, {"ERROR"}) /\ LoggedFor(k, {"ERROR"})

\* the audio clip of a one-clip bundle, once extract_audio has run on it
AudioDone == Handled(1) /\ bundle[1].type = "AudioClip"

NoCompressor == env.adxtool = "absent" /\ env.sox = "absent"

\* C3: degraded audio.  After extract_audio has run on a readable clip with a
\* valid channel count and a non-empty, whole sample buffer while neither adxtool nor sox is available, the
\* WAV container of the clip is in the audio directory with the clip's sample
\* rate and channel count, and a warning but no error was logged -- whatever
\* the output directory held before the call.
Cex_C3 ==
    (AudioDone /\ NoCompressor /\ bundle[1].readOk /\ bundle[1].channels >= 1
        /\ bundle[1].samples > 0 /\ bundle[1].samples % bundle[1].channels = 0) =>
        LET wav_path == AudioPath(sanitize_filename(bundle[1].name), DotWav)
        IN  /\ HasKind(wav_path, {"wav"})
            /\ fs[wav_path].framerate = bundle[1].frequency
            /\ fs[wav_path].nchannels = bundle[1].channels
            /\ LoggedFor(1, {"WARNING"})
            /\ ~LoggedFor(1, {"ERROR"})

\* C4: audio input validation.  After extract_audio has run on a readable clip
\* whose sample buffer is empty or whose length is not a multiple of its channel
\* count, an error is logged for the clip and the audio directory holds no
\* container of it.
Cex_C4 ==
    (AudioDone /\ bundle[1].readOk /\ bundle[1].channels >= 1
        /\ (bundle[1].samples = 0 \/ bundle[1].samples % bundle[1].channels # 0)) =>
        LET name == sanitize_filename(bundle[1].name)
        IN  /\ LoggedFor(1, {"ERROR"})
            /\ AudioPath(name, DotWav) \notin DOMAIN fs
            /\ AudioPath(name, DotAdx) \notin DOMAIN fs

\* C5: texture output naming.  After extract_texture has succeeded on a texture
\* with pixel data, textures/<sanitized name>.pvr is in the output directory,
\* for every source size.
Cex_C5 ==
    (Handled(1) /\ bundle[1].type = "Texture2D" /\ bundle[1].hasImage
        /\ ~LoggedFor(1, {"ERROR"})) =>
        TexturePath(sanitize_filename(bundle[1].name), DotPvr) \in DOMAIN fs

\* the mesh of a one-mesh bundle, once extract_mesh has run on it
MeshDone == Handled(1) /\ bundle[1].type = "Mesh"

DcmPath == ModelPath(sanitize_filename(bundle[1].name), DotDcm)

\* the fields of kind t, in the order written
FieldsOf(fields, t) == SelectSeq(fields, LAMBDA f : f.t = t)

\* C6: mesh index range.  After extract_mesh has run on a mesh with an index of
\* 65536 or more, an error of extract_mesh is logged for it and its success line
\* is not; and in every state every 16-bit index field of a binary container is
\* below 65536 and is the source index at the same position.
Thm_C6 ==
    MeshDone =>
        /\ (~AllBelow65536(bundle[1].indices) =>
               /\ \E i \in 1..Len(log) :
                      log[i] = [level |-> "ERROR", msg |-> "Failed to extract mesh", obj |-> 1]
               /\ ~LoggedFor(1, {"INFO"}))
        /\ (DcmPath \in DOMAIN fs =>
               LET hs == FieldsOf(fs[DcmPath].fields, "H")
               IN  /\ Len(hs) <= Len(bundle[1].indices)
                   /\ \A j \in 1..Len(hs) : hs[j].v < 65536 /\ hs[j].v = bundle[1].indices[j])

\* a mesh whose second triangle holds an index beyond 16 bits: the first
\* triangle is in the container, the second is not, and the error is logged
Wit_C6 ==
    /\ MeshDone /\ bundle[1].readOk
    /\ Len(bundle[1].indices) = 6 /\ bundle[1].indices[5] >= 65536
    /\ DcmPath \in DOMAIN fs
    /\ Len(FieldsOf(fs[DcmPath].fields, "H")) = 3
    /\ LoggedFor(1, {"ERROR"})

\* struct sizes of the formats written: 4s, <I, <f, <H
FieldBytes(f) == IF f.t = "H" THEN 2 ELSE 4

RECURSIVE ByteLen(_)
ByteLen(fields) == IF fields = <<>> THEN 0 ELSE FieldBytes(Head(fields)) + ByteLen(Tail(fields))

MeshWellFormed == bundle[1].readOk /\ WellFormed(bundle[1], env)

\* C7: mesh binary layout.  For a well-formed mesh of V vertices, T triangles and
\* U UV pairs (0 without UV data) the container holds, in this order, the magic,
\* the count V, the 3V coordinates, the count T, the 3T indices, the count U
\* (also when 0) and the 2U coordinates, each in source order, and is
\* 16 + 12V + 6T + 8U bytes long.
Thm_C7 ==
    (MeshDone /\ MeshWellFormed) =>
        LET m == bundle[1]
            V == Len(m.vertices) \div 3
            T == Len(m.indices) \div 3
            U == IF m.hasUV THEN Len(m.uv) \div 2 ELSE 0
        IN  /\ HasKind(DcmPath, {"dcm"})
            /\ LET f == fs[DcmPath].fields
               IN  /\ Len(f) = 4 + 3 * V + 3 * T + 2 * U
                   /\ f[1].t = "magic"
                   /\ f[2] = [t |-> "I", v |-> V]
                   /\ \A j \in 1..(3 * V) : f[2 + j] = [t |-> "f", v |-> m.vertices[j]]
                   /\ f[3 + 3 * V] = [t |-> "I", v |-> T]
                   /\ \A j \in 1..(3 * T) : f[3 + 3 * V + j] = [t |-> "H", v |-> m.indices[j]]
                   /\ f[4 + 3 * V + 3 * T] = [t |-> "I", v |-> U]
                   /\ \A j \in 1..(2 * U) : f[4 + 3 * V + 3 * T + j] = [t |-> "f", v |-> m.uv[j]]
                   /\ ByteLen(f) = 16 + 12 * V + 6 * T + 8 * U

\* one vertex, one triangle, no UV data: 34 bytes ending in a UV count of 0
Wit_C7 ==
    /\ MeshDone /\ MeshWellFormed
    /\ Len(bundle[1].vertices) = 3 /\ Len(bundle[1].indices) = 3 /\ ~bundle[1].hasUV
    /\ HasKind(DcmPath, {"dcm"})
    /\ ByteLen(fs[DcmPath].fields) = 34
    /\ fs[DcmPath].fields[Len(fs[DcmPath].fields)] = [t |-> "I", v |-> 0]

\* C8: material property projection.  After extract_material has succeeded, the
\* record written has exactly the property names of the source; a number, string
\* or boolean is kept as it is and every other value is its text.
Cex_C8 ==
    (Handled(1) /\ bundle[1].type = "Material" /\ bundle[1].hasProperties
        /\ ~LoggedFor(1, {"ERROR"})) =>
        LET src == bundle[1].properties
            out == fs[MaterialPath(sanitize_filename(bundle[1].name))].properties
        IN  /\ DOMAIN out = DOMAIN src
            /\ \A n \in DOMAIN src \cap DOMAIN out :
                  IF src[n].tag \in {"int", "float", "str", "bool"}
                  THEN out[n] = src[n]
                  ELSE out[n].tag = "str" /\ out[n].v = src[n].v

\* q is a power of two: it has no odd divisor but 1
IsPowerOfTwo(q) == q >= 1 /\ \A d \in 2..q : (q % d = 0 => d % 2 = 0)

\* C9: dimension normalization.  Per axis, the result is a power of two no
\* greater than the ceiling; for a dimension w <= ceiling it is the smallest
\* power of two >= w (1 for w = 1); for w > ceiling it is the ceiling.
Thm_C9 ==
    pc = "done" =>
        \A a \in 1..2 :
            LET w == arg.size[a]
                r == ret[a]
            IN  /\ IsPowerOfTwo(r)
                /\ r <= arg.ceiling
                /\ (w <= arg.ceiling => r >= w /\ \A q \in w..(r - 1) : ~IsPowerOfTwo(q))
                /\ (w = 1 => r = 1)
                /\ (w > arg.ceiling => r = arg.ceiling)

\* 5 x 1 under a ceiling of 16 gives 8 x 1; 3 x 20 under a ceiling of 4 gives 4 x 4
Wit_C9 ==
    /\ pc = "done"
    /\ \/ arg.size = <<5, 1>> /\ arg.ceiling = 16 /\ ret = <<8, 1>>
       \/ arg.size = <<3, 20>> /\ arg.ceiling = 4 /\ ret = <<4, 4>>

\* C10: pixel packing.  The value written by either function is in 0..65535,
\* holds red's top 5 bits in bits 15-11, green's top 6 bits in bits 10-5 and
\* blue's top 5 bits in bits 4-0, low bits truncated: white packs to 0xFFFF,
\* black to 0, (248,0,0) to 0xF800 and (7,3,3) to 0.
Thm_C10 ==
    pc = "done" =>
        /\ ret.v \in 0..65535
        /\ ret.v \div 2048 = arg[1] \div 8
        /\ (ret.v \div 32) % 64 = arg[2] \div 4
        /\ ret.v % 32 = arg[3] \div 8
        /\ (arg = <<255, 255, 255>> => ret.v = 65535)
        /\ (arg = <<0, 0, 0>> => ret.v = 0)
        /\ (arg = <<248, 0, 0>> => ret.v = 63488)
        /\ (arg = <<7, 3, 3>> => ret.v = 0)

\* create_simple_pvr has packed (248, 0, 0) to 0xF800
Wit_C10 ==
    pc = "done" /\ ret.by = "create_simple_pvr" /\ arg = <<248, 0, 0>> /\ ret.v = 63488
====
